---- MODULE Spec2Model ----
(***************************************************************************)
(* Model of src/src/connection.ts: a Connection multiplexing CDPSessions   *)
(* over one Transport.  Each action is one public operation or one         *)
(* transport callback, run to completion (single-threaded JavaScript).     *)
(***************************************************************************)
EXTENDS Integers, Sequences, FiniteSets, TLC

\* ---------------------------------------------------------------- bounds
MaxId == 2
MaxSessions == 2
MaxPromises == 2

\* ------------------------------------------------------------ input sets
Undefined == "undefined"
NoId == -1
Methods == {"Debugger.enable", "Target.getTargets"}
DetachMethod == "Target.detachFromTarget"
EventNames == {"Debugger.paused"}
Disconnected == "Symbol(Disconnected)"
\* identifiers given to createSession (the empty identifier denotes the root)
SessionIds == {"A1"}
WireSessionIds == {Undefined, "", "A1", "ghost"}
Results == {"r1"}
ServerMessages == {"boom"}
EmptyParams == "{}"

\* ProtocolResponse: an absent field is Undefined (NoId for the id).
Replies ==
  [sessionId : WireSessionIds, id : 0..MaxId, method : {Undefined},
   params : {Undefined}, result : Results, error : {Undefined}]
  \cup
  [sessionId : WireSessionIds, id : 0..MaxId, method : {Undefined},
   params : {Undefined}, result : {Undefined}, error : ServerMessages]
Events ==
  [sessionId : WireSessionIds, id : {NoId}, method : EventNames,
   params : {"p1"}, result : {Undefined}, error : {Undefined}]
Messages == Replies \cup Events
NoMessage ==
  [sessionId |-> Undefined, id |-> NoId, method |-> Undefined,
   params |-> Undefined, result |-> Undefined, error |-> Undefined]

VARIABLES
  _lastId,     \* Connection._lastId
  _closed,     \* Connection._closed
  _sessions,   \* Connection._sessions : session id -> session object
  transport,   \* the Transport: its two callbacks, closed flag, messages sent
  sessions,    \* heap of CDPSession objects, in creation order
  promises,    \* promises returned by send / sendOrDie, in creation order
  last         \* observable effects of the last operation

vars == <<_lastId, _closed, _sessions, transport, sessions, promises, last>>

_browserSession == 1

\* ------------------------------------------------------- error messages
SessionClosedMessage(method) ==
  <<"Protocol error (", method, "): Session closed. Most likely the target has been closed.">>
TargetClosedMessage(method) ==
  <<"Protocol error (", method, "): Target closed.">>
Stringify(error) == <<"{\"message\":\"", error, "\"}">>
ServerErrorMessage(object) ==
  <<"Protocol error (", object.method, "): ", object.error, " - ">> \o Stringify(object.error)
UnknownSessionMessage(object) == <<"Unknown session id: ", object.sessionId>>
BareErrorMessage == <<"">>
AlreadyDetachedMessage ==
  <<"Session already detached. Most likely the target has been closed.">>
NoError == <<>>

\* ------------------------------------------------------------- promises
Pending == [state |-> "pending", value |-> Undefined, reason |-> NoError]
Resolved(v) == [state |-> "resolved", value |-> v, reason |-> NoError]
Rejected(e) == [state |-> "rejected", value |-> Undefined, reason |-> e]

\* faulty variant: the failure is passed on to the caller
CatchRethrow(o) == o

\* .catch(e => null)
CatchNull(o) == IF o.state = "rejected" THEN Resolved("null") ELSE o

\* what the caller's promise becomes when the sendOrDie promise is o
Chain(best, o) == IF best THEN CatchNull(o) ELSE o

\* one call of the promise's resolve or reject function
Settle(p, o) ==
  IF p.inner.state = "pending"
    THEN [p EXCEPT !.inner = o, !.outer = Chain(p.best, o), !.calls = @ + 1]
    ELSE [p EXCEPT !.calls = @ + 1]

NewPromise(s, method, id, best, o) ==
  [sess |-> s, method |-> method, id |-> id, best |-> best,
   inner |-> o, outer |-> Chain(best, o),
   calls |-> IF o.state = "pending" THEN 0 ELSE 1]

\* ----------------------------------------------------------- Map helpers
MapSet(m, k, v) == [x \in DOMAIN m \cup {k} |-> IF x = k THEN v ELSE m[x]]
MapDelete(m, k) == [x \in DOMAIN m \ {k} |-> m[x]]
MapValues(m) == {m[k] : k \in DOMAIN m}
EmptyMap == <<>>

\* the last operation: which one ran, the inbound message it was given (if any),
\* the error it threw and the events it emitted
Effects(op, object, thrown, emitted) ==
  [op |-> op, object |-> object, thrown |-> thrown, emitted |-> emitted]

\* ------------------------------------------------------------ Connection
NewSession(sessionId) ==
  [_sessionId |-> sessionId, _connection |-> TRUE, _callbacks |-> EmptyMap]

Init ==
  /\ _lastId = 0
  /\ _closed = FALSE
  /\ sessions = <<NewSession("")>>
  /\ _sessions = MapSet(EmptyMap, "", _browserSession)
  /\ transport = [onmessage |-> TRUE, onclose |-> TRUE, closed |-> FALSE, sent |-> <<>>]
  /\ promises = <<>>
  /\ last = Effects("constructor", NoMessage, NoError, {})

\* faulty variant: the counter is not advanced
NextIdStuck(lastId) == lastId

NextId(lastId) == lastId + 1

\* if (sessionId) message.sessionId = sessionId
Command(id, method, sessionId) ==
  [id |-> id, method |-> method, params |-> EmptyParams,
   sessionId |-> IF sessionId = "" THEN Undefined ELSE sessionId]

\* Connection._send: the transport after the command has been handed to it
TransportSend(method, sessionId) ==
  [transport EXCEPT !.sent = Append(@, Command(NextId(_lastId), method, sessionId))]

\* Connection.createSession
\* (the caller guarantees that sessionId is not a registered identifier)
CreateSession(sessionId) ==
  /\ Len(sessions) < MaxSessions
  /\ sessionId \notin DOMAIN _sessions
  /\ sessions' = Append(sessions, NewSession(sessionId))
  /\ _sessions' = MapSet(_sessions, sessionId, Len(sessions) + 1)
  /\ last' = Effects("createSession", NoMessage, NoError, {})
  /\ UNCHANGED <<_lastId, _closed, transport, promises>>


\* ------------------------------------------------------------ CDPSession
\* faulty variant: the closed check is missing
IsClosedNever(s) == FALSE

\* CDPSession.isClosed: the back-reference to the Connection is cleared
IsClosed(s) == ~sessions[s]._connection

\* CDPSession.sendOrDie; send is sendOrDie(...).catch(e => null)
SendOrDieImpl(s, method, best) ==
  /\ Len(promises) < MaxPromises
  /\ IF IsClosed(s)
       THEN /\ promises' = Append(promises,
                 NewPromise(s, method, NoId, best, Rejected(SessionClosedMessage(method))))
            /\ UNCHANGED <<_lastId, transport, sessions>>
       ELSE /\ _lastId < MaxId
            /\ _lastId' = NextId(_lastId)
            /\ transport' = TransportSend(method, sessions[s]._sessionId)
            /\ sessions' = [sessions EXCEPT ![s]._callbacks =
                 MapSet(@, NextId(_lastId), [method |-> method, promise |-> Len(promises) + 1])]
            /\ promises' = Append(promises,
                 NewPromise(s, method, NextId(_lastId), best, Pending))
  /\ last' = Effects(IF best THEN "send" ELSE "sendOrDie", NoMessage, NoError, {})
  /\ UNCHANGED <<_closed, _sessions>>

SendOrDie(s, method) == SendOrDieImpl(s, method, FALSE)

Send(s, method) == SendOrDieImpl(s, method, TRUE)

\* faulty variant: closing clears the back-reference but keeps the pending map
ClosedKeepingCallbacks(session) ==
  [session EXCEPT !._connection = FALSE]

\* CDPSession._onClose, run on every session of the set S
ClosedSession(session) ==
  [session EXCEPT !._callbacks = EmptyMap, !._connection = FALSE]

SessionsAfterClose(S) ==
  [s \in DOMAIN sessions |-> IF s \in S THEN ClosedSession(sessions[s]) ELSE sessions[s]]

CallbacksOf(S, p) ==
  {c \in S \X (1..MaxId + 1) :
     /\ c[2] \in DOMAIN sessions[c[1]]._callbacks
     /\ sessions[c[1]]._callbacks[c[2]].promise = p}

CloseRejection(callback) == Rejected(TargetClosedMessage(callback.method))

PromisesAfterClose(S) ==
  [p \in DOMAIN promises |->
     LET hits == CallbacksOf(S, p) IN
       IF hits = {} THEN promises[p]
       ELSE LET c == CHOOSE h \in hits : TRUE
                q == Settle(promises[p], CloseRejection(sessions[c[1]]._callbacks[c[2]]))
            IN  [q EXCEPT !.calls = @ + Cardinality(hits) - 1]]

DisconnectedEvents(S) ==
  {[sess |-> s, name |-> Disconnected, params |-> Undefined] : s \in S}

\* faulty variant: detach runs the session's close handling itself
DetachClosesSession(s) == SessionsAfterClose({s})

\* CDPSession.detach touches no field of the session
SessionsAfterDetach(s) == sessions

\* CDPSession.detach
Detach(s) ==
  /\ IF IsClosed(s)
       THEN /\ last' = Effects("detach", NoMessage, AlreadyDetachedMessage, {})
            /\ UNCHANGED <<_lastId, transport>>
       ELSE /\ _lastId < MaxId
            /\ _lastId' = NextId(_lastId)
            /\ transport' = TransportSend(DetachMethod, sessions[s]._sessionId)
            /\ last' = Effects("detach", NoMessage, NoError, {})
  /\ sessions' = SessionsAfterDetach(s)
  /\ UNCHANGED <<_closed, _sessions, promises>>

\* faulty variant: a disposed session stays in the registry
RegistryKept(s) == _sessions

\* Connection._disposeSession: the registry after session s is disposed
RegistryAfterDispose(s) == MapDelete(_sessions, sessions[s]._sessionId)

\* CDPSession.dispose
Dispose(s) ==
  /\ IF IsClosed(s)
       THEN /\ last' = Effects("dispose", NoMessage, NoError, {})
            /\ UNCHANGED <<sessions, promises, _sessions>>
       ELSE /\ sessions' = SessionsAfterClose({s})
            /\ promises' = PromisesAfterClose({s})
            /\ _sessions' = RegistryAfterDispose(s)
            /\ last' = Effects("dispose", NoMessage, NoError,
                               DisconnectedEvents({s}))
  /\ UNCHANGED <<_lastId, _closed, transport>>

\* faulty variant: the close path runs again on an already closed connection
SessionsClosedAgain == MapValues(_sessions)

\* Connection._onTransportClose: the sessions whose _onClose it runs
SessionsToClose == IF _closed THEN {} ELSE MapValues(_sessions)

RegistryAfterClose == IF _closed THEN _sessions ELSE EmptyMap

OnTransportClose ==
  /\ _closed' = TRUE
  /\ sessions' = SessionsAfterClose(SessionsToClose)
  /\ promises' = PromisesAfterClose(SessionsToClose)
  /\ _sessions' = RegistryAfterClose
  /\ UNCHANGED _lastId

DetachedCallbacks ==
  IF _closed THEN transport ELSE [transport EXCEPT !.onmessage = FALSE, !.onclose = FALSE]

\* Connection.dispose
ConnectionDispose ==
  /\ OnTransportClose
  /\ transport' = [DetachedCallbacks EXCEPT !.closed = TRUE]
  /\ last' = Effects("Connection.dispose", NoMessage, NoError,
                     DisconnectedEvents(SessionsToClose))

\* the Transport closes and invokes its onclose callback
TransportClose ==
  /\ transport.onclose
  /\ OnTransportClose
  /\ transport' = [DetachedCallbacks EXCEPT !.closed = TRUE]
  /\ last' = Effects("onclose", NoMessage, NoError,
                     DisconnectedEvents(SessionsToClose))

\* ------------------------------------------------------ inbound messages
\* JavaScript truthiness of object.id: an absent id and the id 0 are both falsy
Truthy(id) == id # NoId /\ id # 0

\* object.sessionId || ''
SessionKey(object) == IF object.sessionId = Undefined THEN "" ELSE object.sessionId

NoSession == 0

\* faulty variant: an unknown identifier falls back to the root session
RouteOrRoot(object) ==
  IF SessionKey(object) \in DOMAIN _sessions THEN _sessions[SessionKey(object)] ELSE _browserSession

\* faulty variant: every inbound message is handed to the root session
RouteToRoot(object) ==
  IF "" \in DOMAIN _sessions THEN _sessions[""] ELSE NoSession

\* this._sessions.get(object.sessionId || '')
Route(object) ==
  IF SessionKey(object) \in DOMAIN _sessions THEN _sessions[SessionKey(object)] ELSE NoSession

\* object.id && this._callbacks.has(object.id)
Matches(s, object) == Truthy(object.id) /\ object.id \in DOMAIN sessions[s]._callbacks

ReplyOutcome(object) ==
  IF object.error # Undefined
    THEN Rejected(ServerErrorMessage(object))
    ELSE Resolved(object.result)

\* faulty variant: a reply drops every pending entry of the session
CallbacksCleared(callbacks, id) == EmptyMap

\* this._callbacks.delete(object.id)
CallbacksAfterReply(callbacks, id) == MapDelete(callbacks, id)

\* faulty variant: the event is emitted without its parameter object
EmittedWithoutParams(s, object) ==
  {[sess |-> s, name |-> object.method, params |-> Undefined]}

\* this.emit(object.method, object.params)
EmittedEvent(s, object) ==
  {[sess |-> s, name |-> object.method, params |-> object.params]}

\* faulty variant: a reply settles the oldest pending command of the session
OldestCallback(s, object) ==
  sessions[s]._callbacks[CHOOSE i \in DOMAIN sessions[s]._callbacks :
                           \A j \in DOMAIN sessions[s]._callbacks : i <= j]

\* const callback = this._callbacks.get(object.id)
CallbackFor(s, object) == sessions[s]._callbacks[object.id]

\* CDPSession._onMessage
SessionOnMessage(s, object) ==
  IF Matches(s, object)
    THEN /\ sessions' = [sessions EXCEPT ![s]._callbacks = CallbacksAfterReply(@, object.id)]
         /\ promises' = [promises EXCEPT ![CallbackFor(s, object).promise] =
                           Settle(@, ReplyOutcome(object))]
         /\ last' = Effects("onmessage", object, NoError, {})
    ELSE /\ UNCHANGED <<sessions, promises>>
         /\ IF Truthy(object.id)
              THEN last' = Effects("onmessage", object, BareErrorMessage, {})
              ELSE last' = Effects("onmessage", object, NoError, EmittedEvent(s, object))

\* Connection._onMessage, invoked by the Transport while the callback is attached
OnMessage(object) ==
  /\ transport.onmessage
  /\ IF Route(object) # NoSession
       THEN SessionOnMessage(Route(object), object)
       ELSE /\ last' = Effects("onmessage", object, UnknownSessionMessage(object), {})
            /\ UNCHANGED <<sessions, promises>>
  /\ UNCHANGED <<_lastId, _closed, _sessions, transport>>

\* ---------------------------------------------------------- specification
Objects == DOMAIN sessions

Next ==
  \/ \E sessionId \in SessionIds : CreateSession(sessionId)
  \/ \E s \in Objects, method \in Methods : SendOrDie(s, method)
  \/ \E s \in Objects, method \in Methods : Send(s, method)
  \/ \E s \in Objects : Detach(s)
  \/ \E s \in Objects : Dispose(s)
  \/ ConnectionDispose
  \/ TransportClose
  \/ \E object \in Messages : OnMessage(object)

Spec == Init /\ [][Next]_vars


\* ================================================================ claims
\* the commands handed to the Transport so far, in order
Sent == transport.sent

\* the position in the Transport's log of the command sent with this id
SentAt(id) == CHOOSE i \in DOMAIN Sent : Sent[i].id = id

\* the registry key an inbound message addresses: an absent identifier is the root's
KeyOf(object) == IF object.sessionId = Undefined THEN "" ELSE object.sessionId

\* C1: every command issued through sendOrDie is settled at most once, and once
\* its owning session or the connection has closed it has been settled exactly
\* once.
C1_ExactlyOnceSettlement ==
  \A p \in DOMAIN promises :
    /\ promises[p].calls <= 1
    /\ (~sessions[promises[p].sess]._connection \/ _closed) => promises[p].calls = 1

\* C2: the identifiers handed to the Transport, by whatever session and
\* including detach commands, are strictly increasing, so none is issued twice.
C2_IdsStrictlyIncreasing ==
  /\ \A i, j \in DOMAIN Sent : i < j => Sent[i].id < Sent[j].id
  /\ \A i \in DOMAIN Sent : Sent[i].id <= _lastId

C2_Witness ==
  /\ Len(Sent) = 2
  /\ Sent[1].sessionId # Sent[2].sessionId
  /\ Sent[1].method = DetachMethod
  /\ Sent[2].method \in Methods

\* C3: a connection dispose or transport close rejects every pending command of
\* every registered session with "Protocol error (<sent method>): Target
\* closed.", closes every registered session and leaves the registry empty.
C3_DisposeRejectsAllAndEmptiesRegistry ==
  [][last'.op \in {"Connection.dispose", "onclose"} =>
       /\ DOMAIN _sessions' = {}
       /\ \A s \in MapValues(_sessions) :
            /\ ~sessions'[s]._connection
            /\ \A id \in DOMAIN sessions[s]._callbacks :
                 promises'[sessions[s]._callbacks[id].promise].inner =
                   Rejected(<<"Protocol error (", Sent[SentAt(id)].method,
                              "): Target closed.">>)]_vars

\* C4: once the connection is closed no command is handed to the Transport and
\* every sendOrDie rejects at once instead of leaving a command pending.
C4_ClosedConnectionSendsNothing ==
  [][_closed =>
       /\ transport'.sent = transport.sent
       /\ \A p \in DOMAIN promises' \ DOMAIN promises :
            promises'[p].inner.state = "rejected"]_vars

\* C5: while the connection is open the empty session identifier is registered
\* to the root session returned by browserSession(), and that session is open.
C5_RootAlwaysRegistered ==
  ~_closed =>
    /\ "" \in DOMAIN _sessions
    /\ _sessions[""] = _browserSession
    /\ sessions[_browserSession]._connection

\* C6: an inbound message carrying an identifier that matches no pending
\* command of the receiving session raises an error, emits no event, settles no
\* future and leaves every pending-command map unchanged.
C6_UnmatchedReplyIsFatal ==
  [][(/\ last'.op = "onmessage"
      /\ last'.object.id # NoId
      /\ KeyOf(last'.object) \in DOMAIN _sessions
      /\ last'.object.id \notin DOMAIN sessions[_sessions[KeyOf(last'.object)]]._callbacks)
     => /\ last'.thrown # NoError
        /\ last'.emitted = {}
        /\ promises' = promises
        /\ sessions' = sessions]_vars

\* C7: an inbound message whose session identifier is not in the registry fails
\* with "Unknown session id: <identifier>", reaches no session, settles no
\* command, emits no event and leaves registry and pending maps unchanged.
C7_UnknownSessionIdFails ==
  [][(last'.op = "onmessage" /\ KeyOf(last'.object) \notin DOMAIN _sessions)
     => /\ last'.thrown = <<"Unknown session id: ", last'.object.sessionId>>
        /\ last'.emitted = {}
        /\ UNCHANGED <<_sessions, sessions, promises, _lastId, _closed, transport>>]_vars

C7_Witness ==
  /\ last.op = "onmessage"
  /\ last.object.sessionId = "A1"
  /\ last.object.id = 1
  /\ last.thrown = <<"Unknown session id: ", "A1">>
  /\ \E s \in DOMAIN sessions : sessions[s]._sessionId = "A1" /\ ~sessions[s]._connection
  /\ \E p \in DOMAIN promises : promises[p].inner.state = "pending" /\ promises[p].id = 1
  /\ ~_closed

\* C8: the promise returned by send is never rejected: it resolves to null
\* whenever the sendOrDie promise it wraps rejects (closed session, error reply,
\* closure) and resolves with the same result whenever that one resolves.
C8_SendNeverFails ==
  \A p \in DOMAIN promises :
    promises[p].best =>
      /\ promises[p].outer.state # "rejected"
      /\ promises[p].inner.state = "rejected" => promises[p].outer = Resolved("null")
      /\ promises[p].inner.state = "resolved" => promises[p].outer = promises[p].inner
      /\ promises[p].inner.state = "pending" => promises[p].outer.state = "pending"

C8_Witness ==
  \E p, q \in DOMAIN promises :
    /\ promises[p].best /\ promises[q].best
    /\ promises[p].inner.state = "rejected"
    /\ promises[p].inner.reason[3] = "): "
    /\ promises[p].outer.value = "null"
    /\ promises[q].outer = Resolved("r1")

\* C9: sendOrDie on a closed session returns a promise already rejected with
\* "Protocol error (<method>): Session closed. ..." and leaves the identifier
\* counter, the Transport and the session's (empty) pending map untouched.
C9_SendOnClosedSessionRejectsLocally ==
  [][\A s \in DOMAIN sessions, method \in Methods :
       (~sessions[s]._connection /\ SendOrDie(s, method))
       => /\ Len(promises') = Len(promises) + 1
          /\ promises'[Len(promises')].outer =
               Rejected(<<"Protocol error (", method,
                          "): Session closed. Most likely the target has been closed.">>)
          /\ _lastId' = _lastId
          /\ transport' = transport
          /\ DOMAIN sessions'[s]._callbacks = {}
          /\ sessions' = sessions]_vars

C9_Witness ==
  /\ last.op = "sendOrDie"
  /\ ~_closed
  /\ _lastId > 0
  /\ \E p \in DOMAIN promises :
       /\ p = Len(promises)
       /\ ~promises[p].best
       /\ promises[p].id = NoId
       /\ promises[p].outer = Rejected(SessionClosedMessage(promises[p].method))
       /\ ~sessions[promises[p].sess]._connection

\* C10: an error reply rejects only the promise of the command whose identifier
\* it carries and removes only that entry: every other promise, every other
\* pending entry and session, the registry, the connection and the Transport are
\* as before, and the session stays open.
C10_ErrorReplyIsPerCommand ==
  [][(/\ last'.op = "onmessage"
      /\ last'.object.error # Undefined
      /\ last'.object.id > 0
      /\ KeyOf(last'.object) \in DOMAIN _sessions
      /\ last'.object.id \in DOMAIN sessions[_sessions[KeyOf(last'.object)]]._callbacks)
     => LET s == _sessions[KeyOf(last'.object)]
            id == last'.object.id
            p == sessions[s]._callbacks[id].promise
        IN  /\ promises[p].inner.state = "pending"
            /\ promises'[p].inner.state = "rejected"
            /\ promises'[p].calls = 1
            /\ DOMAIN promises' = DOMAIN promises
            /\ \A q \in DOMAIN promises \ {p} : promises'[q] = promises[q]
            /\ DOMAIN sessions'[s]._callbacks = DOMAIN sessions[s]._callbacks \ {id}
            /\ \A i \in DOMAIN sessions'[s]._callbacks :
                 sessions'[s]._callbacks[i] = sessions[s]._callbacks[i]
            /\ sessions'[s]._connection
            /\ \A r \in DOMAIN sessions \ {s} : sessions'[r] = sessions[r]
            /\ DOMAIN sessions' = DOMAIN sessions
            /\ UNCHANGED <<_sessions, _closed, _lastId, transport>>]_vars

C10_Witness ==
  /\ last.op = "onmessage"
  /\ last.object.error # Undefined
  /\ \E p, q \in DOMAIN promises :
       /\ promises[p].id = last.object.id
       /\ promises[p].inner.state = "rejected"
       /\ promises[q].inner.state = "pending"
       /\ promises[p].sess = promises[q].sess
       /\ sessions[promises[p].sess]._connection
       /\ promises[q].id \in DOMAIN sessions[promises[q].sess]._callbacks
       /\ ~_closed


\* C11: an error reply to a pending command registered with method M rejects
\* with "Protocol error (M): <server message> - <serialized error>", M being the
\* method recorded at send time.
C11_ErrorReplyNamesSentMethod ==
  [][(/\ last'.op = "onmessage"
      /\ last'.object.error # Undefined
      /\ last'.object.id > 0
      /\ KeyOf(last'.object) \in DOMAIN _sessions
      /\ last'.object.id \in DOMAIN sessions[_sessions[KeyOf(last'.object)]]._callbacks)
     => LET callback == sessions[_sessions[KeyOf(last'.object)]]._callbacks[last'.object.id]
        IN  promises'[callback.promise].inner =
              Rejected(<<"Protocol error (", callback.method, "): ", last'.object.error,
                         " - ", "{\"message\":\"", last'.object.error, "\"}">>)]_vars

\* C12: an inbound message without an identifier is an event: the session it is
\* addressed to emits it under its method name with its parameter object, nothing
\* is thrown, and no session, promise, registry entry or counter changes.
C12_EventIsEmittedOnly ==
  [][(/\ last'.op = "onmessage"
      /\ last'.object.id = NoId
      /\ KeyOf(last'.object) \in DOMAIN _sessions)
     => /\ last'.emitted = {[sess |-> _sessions[KeyOf(last'.object)],
                             name |-> last'.object.method,
                             params |-> last'.object.params]}
        /\ last'.thrown = NoError
        /\ UNCHANGED <<_sessions, sessions, promises, _lastId, _closed, transport>>]_vars

C12_Witness ==
  /\ last.op = "onmessage"
  /\ last.object.id = NoId
  /\ last.object.sessionId = "A1"
  /\ "A1" \in DOMAIN _sessions
  /\ last.emitted = {[sess |-> _sessions["A1"], name |-> "Debugger.paused", params |-> "p1"]}
  /\ DOMAIN sessions[_sessions["A1"]]._callbacks # {}


\* C13: detach() on an open session sends Target.detachFromTarget tagged with
\* the session's identifier and registers its identifier as a pending command of
\* that session, so that the reply carrying it is a matching reply and does not
\* raise the unmatched-reply error.
C13_DetachIsStrictCommand ==
  [][/\ \A s \in DOMAIN sessions :
          (sessions[s]._connection /\ Detach(s)) =>
            /\ Sent'[Len(Sent')].method = "Target.detachFromTarget"
            /\ Sent'[Len(Sent')].sessionId =
                 (IF sessions[s]._sessionId = "" THEN Undefined ELSE sessions[s]._sessionId)
            /\ Sent'[Len(Sent')].id \in DOMAIN sessions'[s]._callbacks
     /\ (/\ last'.op = "onmessage"
         /\ last'.object.id > 0
         /\ \E i \in DOMAIN Sent :
              /\ Sent[i].id = last'.object.id
              /\ Sent[i].method = "Target.detachFromTarget"
              /\ Sent[i].sessionId = last'.object.sessionId
              /\ KeyOf(last'.object) \in DOMAIN _sessions)
        => last'.thrown = NoError]_vars

\* C14: detach() clears no local state: the step changes no session (open,
\* pending entries), no promise and no registration, emits and throws nothing;
\* and a session only ever goes from open to closed in a session dispose, a
\* connection dispose or a transport close.
C14_DetachKeepsLocalState ==
  [][/\ \A s \in DOMAIN sessions :
          (sessions[s]._connection /\ Detach(s)) =>
            /\ sessions' = sessions
            /\ sessions'[s]._connection
            /\ UNCHANGED <<_sessions, promises, _closed>>
            /\ last'.emitted = {}
            /\ last'.thrown = NoError
     /\ \A s \in DOMAIN sessions :
          (sessions[s]._connection /\ ~sessions'[s]._connection) =>
            last'.op \in {"dispose", "Connection.dispose", "onclose"}]_vars

C14_Witness ==
  /\ last.op = "detach"
  /\ last.thrown = NoError
  /\ "A1" \in DOMAIN _sessions
  /\ sessions[_sessions["A1"]]._connection
  /\ DOMAIN sessions[_sessions["A1"]]._callbacks = {1}
  /\ promises[1].inner.state = "pending"
  /\ Len(Sent) = 2
  /\ Sent[2].method = DetachMethod
  /\ Sent[2].sessionId = "A1"


\* C15: disposing an open session rejects each of its pending commands with
\* "Protocol error (<sent method>): Target closed.", closes it, emits one
\* disconnected notification on it and removes its identifier from the registry;
\* every other session, registration and promise and the connection's closed
\* flag are unchanged.
C15_DisposeClosesExactlyThatSession ==
  [][\A s \in DOMAIN sessions :
       (sessions[s]._connection /\ Dispose(s)) =>
         /\ \A id \in DOMAIN sessions[s]._callbacks :
              promises'[sessions[s]._callbacks[id].promise].inner =
                Rejected(<<"Protocol error (", Sent[SentAt(id)].method, "): Target closed.">>)
         /\ ~sessions'[s]._connection
         /\ DOMAIN sessions'[s]._callbacks = {}
         /\ last'.emitted = {[sess |-> s, name |-> Disconnected, params |-> Undefined]}
         /\ sessions[s]._sessionId \notin DOMAIN _sessions'
         /\ \A k \in DOMAIN _sessions \ {sessions[s]._sessionId} :
              k \in DOMAIN _sessions' /\ _sessions'[k] = _sessions[k]
         /\ DOMAIN _sessions' \subseteq DOMAIN _sessions
         /\ \A t \in DOMAIN sessions \ {s} : sessions'[t] = sessions[t]
         /\ \A p \in DOMAIN promises :
              promises[p].sess # s => promises'[p] = promises[p]
         /\ _closed' = _closed]_vars

C15_Witness ==
  /\ last.op = "dispose"
  /\ last.emitted # {}
  /\ \E e \in last.emitted : sessions[e.sess]._sessionId = "A1"
  /\ "A1" \notin DOMAIN _sessions
  /\ Len(promises) = 2
  /\ promises[1].sess # promises[2].sess
  /\ \E p, q \in DOMAIN promises :
       /\ sessions[promises[p].sess]._sessionId = "A1"
       /\ promises[p].inner.state = "rejected"
       /\ promises[q].sess = _browserSession
       /\ promises[q].inner.state = "pending"
       /\ promises[q].id \in DOMAIN sessions[_browserSession]._callbacks

\* C16: a closed session has an empty pending-command map, and closure is
\* permanent: no step makes a closed session open again or adds an entry to its
\* pending-command map.
C16_ClosedIsEmptyAndPermanent ==
  [][/\ \A s \in DOMAIN sessions' :
          ~sessions'[s]._connection => DOMAIN sessions'[s]._callbacks = {}
     /\ \A s \in DOMAIN sessions :
          ~sessions[s]._connection =>
            /\ DOMAIN sessions[s]._callbacks = {}
            /\ ~sessions'[s]._connection]_vars

C16_Witness ==
  /\ \E s \in DOMAIN sessions :
       /\ ~sessions[s]._connection
       /\ \E p \in DOMAIN promises :
            /\ promises[p].sess = s
            /\ promises[p].inner = Rejected(<<"Protocol error (", "Debugger.enable", "): Target closed.">>)
       /\ \E q \in DOMAIN promises :
            /\ promises[q].sess = s
            /\ promises[q].id = NoId
  /\ last.op \in {"send", "sendOrDie"}

\* C17: a Connection.dispose or transport close on an already closed connection
\* changes no connection, session or promise state and emits nothing; and in any
\* connection dispose or transport close the sessions that receive the
\* disconnected notification were open before it, so no session's close
\* handling runs twice on account of connection closure.
C17_ConnectionCloseIsIdempotent ==
  [][last'.op \in {"Connection.dispose", "onclose"} =>
       /\ _closed =>
            /\ UNCHANGED <<_lastId, _closed, _sessions, sessions, promises, transport>>
            /\ last'.emitted = {}
       /\ \A e \in last'.emitted : sessions[e.sess]._connection
       /\ _closed']_vars

C17_Witness ==
  /\ last.op = "Connection.dispose"
  /\ last.emitted = {}
  /\ _closed
  /\ \E s \in DOMAIN sessions :
       /\ sessions[s]._connection
       /\ DOMAIN sessions[s]._callbacks # {}
  /\ \E p \in DOMAIN promises : promises[p].inner.state = "pending"


\* C18: an inbound message is handled only by the session registered under the
\* identifier it is tagged with: every other session keeps its pending-command
\* map and closed state, none of the other sessions' commands is settled, and
\* every event emitted by the step is emitted on the registered session.
C18_InboundIsDemultiplexed ==
  [][last'.op = "onmessage" =>
       LET key == KeyOf(last'.object)
           target == IF key \in DOMAIN _sessions THEN {_sessions[key]} ELSE {}
       IN  /\ \A t \in DOMAIN sessions \ target :
                /\ sessions'[t] = sessions[t]
                /\ \A p \in DOMAIN promises :
                     promises[p].sess = t => promises'[p] = promises[p]
           /\ \A e \in last'.emitted : e.sess \in target
           /\ DOMAIN sessions' = DOMAIN sessions
           /\ _sessions' = _sessions]_vars

C18_Witness ==
  /\ last.op = "onmessage"
  /\ last.object.sessionId = "A1"
  /\ last.object.id = 1
  /\ last.object.error = Undefined
  /\ "A1" \in DOMAIN _sessions
  /\ sessions[_sessions["A1"]]._connection
  /\ 1 \in DOMAIN sessions[_browserSession]._callbacks
  /\ promises[sessions[_browserSession]._callbacks[1].promise].inner.state = "pending"
  /\ last.thrown = <<"">>
  /\ last.emitted = {}

\* C19: a non-error reply that matches a pending command of its session resolves
\* the future of the command sent with the reply's identifier with the reply's
\* result, whatever the order of the replies; it settles no other future and
\* removes exactly the pending entry with that identifier.
C19_CorrelationByIdentifier ==
  [][(/\ last'.op = "onmessage"
      /\ last'.object.error = Undefined
      /\ last'.object.id > 0
      /\ KeyOf(last'.object) \in DOMAIN _sessions
      /\ last'.object.id \in DOMAIN sessions[_sessions[KeyOf(last'.object)]]._callbacks)
     => LET s == _sessions[KeyOf(last'.object)]
            id == last'.object.id
        IN  /\ \E p \in DOMAIN promises :
                 /\ promises[p].sess = s
                 /\ promises[p].id = id
                 /\ promises[p].method = Sent[SentAt(id)].method
                 /\ promises[p].inner.state = "pending"
                 /\ promises'[p].inner = Resolved(last'.object.result)
                 /\ promises'[p].outer = Resolved(last'.object.result)
                 /\ \A q \in DOMAIN promises \ {p} : promises'[q] = promises[q]
            /\ DOMAIN sessions'[s]._callbacks = DOMAIN sessions[s]._callbacks \ {id}
            /\ \A i \in DOMAIN sessions'[s]._callbacks :
                 sessions'[s]._callbacks[i] = sessions[s]._callbacks[i]
            /\ last'.thrown = NoError]_vars

C19_Witness ==
  /\ last.op = "onmessage"
  /\ last.object.id = 2
  /\ last.object.error = Undefined
  /\ last.thrown = NoError
  /\ \E p, q \in DOMAIN promises :
       /\ promises[p].sess = promises[q].sess
       /\ promises[p].id = 2
       /\ promises[p].inner = Resolved(last.object.result)
       /\ promises[q].id = 1
       /\ promises[q].inner.state = "pending"
       /\ DOMAIN sessions[promises[q].sess]._callbacks = {1}

\* C20: given that createSession is never passed a registered identifier, a
\* session is open exactly when the registry holds it under its own session
\* identifier, and when the connection is closed no session is open.
C20_RegistryConsistency ==
  /\ \A s \in DOMAIN sessions :
       sessions[s]._connection <=>
         /\ sessions[s]._sessionId \in DOMAIN _sessions
         /\ _sessions[sessions[s]._sessionId] = s
  /\ _closed => \A s \in DOMAIN sessions : ~sessions[s]._connection

====
